---- MODULE Spec2Model ----
(***************************************************************************)
(* A model of the flashcards backend (flashcards.py) and of the practice   *)
(* session that the Qt front end (flashcards_gui.py) drives on top of it.  *)
(*                                                                         *)
(* Text is a sequence of one-character strings; elapsed times and the      *)
(* mastery threshold are whole ticks.                                      *)
(***************************************************************************)
EXTENDS Integers, Sequences, FiniteSets, TLC

VARIABLES
    deck,             \* the Deck in use (FlashCards.deck)
    ret,              \* the last operation and what it returned or raised
    screen,           \* what the window shows: "home", "run", "report", "crashed"
    current_card,     \* FlashCards.current_card, an index into deck.cards (0: unset)
    incorrect_delay,  \* FlashCards.incorrect_delay
    answer_box,       \* the session's QLineEdit: "enabled", "disabled", "deleted"
    timer,            \* a QTimer.singleShot of this session is pending
    stale             \* pending single-shot timers of sessions that were left

vars == <<deck, ret, screen, current_card, incorrect_delay, answer_box, timer,
          stale>>

gui_vars == <<screen, current_card, incorrect_delay, answer_box, timer, stale>>

(***************************************************************************)
(* Bounds of the model.                                                    *)
(***************************************************************************)
\* at most this many responses recorded in a deck
MaxResp == 3

\* the elapsed times a caller reports, in ticks
Times == {1, 2, 3}

\* values of the mastery-time spin box that the model explores
Thresholds == {2, 3}

(***************************************************************************)
(* Text: str(n), str.strip() and int(s).                                   *)
(***************************************************************************)
Whitespace == {" "}

DigitChars == {"0", "1", "2", "3", "4", "5", "6", "7", "8", "9"}

digit_value(c) ==
    CASE c = "0" -> 0 [] c = "1" -> 1 [] c = "2" -> 2 [] c = "3" -> 3
      [] c = "4" -> 4 [] c = "5" -> 5 [] c = "6" -> 6 [] c = "7" -> 7
      [] c = "8" -> 8 [] c = "9" -> 9

digit_char(d) ==
    CASE d = 0 -> "0" [] d = 1 -> "1" [] d = 2 -> "2" [] d = 3 -> "3"
      [] d = 4 -> "4" [] d = 5 -> "5" [] d = 6 -> "6" [] d = 7 -> "7"
      [] d = 8 -> "8" [] d = 9 -> "9"

RECURSIVE str_nat(_)
str_nat(n) ==
    IF n < 10 THEN <<digit_char(n)>>
    ELSE str_nat(n \div 10) \o <<digit_char(n % 10)>>

\* the text an f-string puts for an integer
str(n) == IF n < 0 THEN <<"-">> \o str_nat(-n) ELSE str_nat(n)

RECURSIVE lstrip(_)
lstrip(s) ==
    IF Len(s) > 0 /\ Head(s) \in Whitespace THEN lstrip(Tail(s)) ELSE s

RECURSIVE rstrip(_)
rstrip(s) ==
    IF Len(s) > 0 /\ s[Len(s)] \in Whitespace
    THEN rstrip(SubSeq(s, 1, Len(s) - 1))
    ELSE s

strip(s) == rstrip(lstrip(s))

\* the result of a call: the exception it raised ("none" if it returned) and
\* the value it returned
Returned(v) == [exc |-> "none", val |-> v]

Raised(e) == [exc |-> e, val |-> 0]

\* digits with single underscores between them; prev is "start", "digit" or "us"
RECURSIVE parse_digits(_, _, _)
parse_digits(s, acc, prev) ==
    IF Len(s) = 0
    THEN IF prev = "digit" THEN Returned(acc) ELSE Raised("ValueError")
    ELSE IF Head(s) \in DigitChars
    THEN parse_digits(Tail(s), acc * 10 + digit_value(Head(s)), "digit")
    ELSE IF Head(s) = "_" /\ prev = "digit"
    THEN parse_digits(Tail(s), acc, "us")
    ELSE Raised("ValueError")

\* int(s) of a str: surrounding whitespace, one optional sign, decimal digits
int(s) ==
    LET t == strip(s)
        signed == Len(t) > 0 /\ Head(t) \in {"+", "-"}
        r == parse_digits(IF signed THEN Tail(t) ELSE t, 0, "start")
    IN  IF r.exc = "none" /\ signed /\ Head(t) = "-"
        THEN Returned(0 - r.val)
        ELSE r

(***************************************************************************)
(* ResponseMetadata and Card / Arithmetic.                                 *)
(***************************************************************************)
ResponseMetadata(correct, given, t) ==
    [correct |-> correct, answer |-> given, time |-> t]

Arithmetic(problem, expected) ==
    [problem |-> problem, answer_type |-> "TEXT", answer |-> expected,
     responses |-> <<>>]

RECURSIVE sum_times(_)
sum_times(rs) == IF Len(rs) = 0 THEN 0 ELSE Head(rs).time + sum_times(Tail(rs))

\* Card.time
time(c) == sum_times(c.responses)

\* Card.__lt__
lt(self, other) ==
    IF Len(self.responses) < Len(other.responses)
    THEN TRUE
    ELSE time(self) < time(other)

\* _check_answer without its try/except: a failure of int() propagates
check_answer_no_except(self, given_answer) ==
    LET r == int(given_answer)
    IN  IF r.exc # "none" THEN r
        ELSE IF self.answer = r.val THEN Returned("CORRECT")
        ELSE Returned("INCORRECT")

\* _check_answer that compares the text of the answer, not its value
check_answer_as_text(self, given_answer) ==
    IF str(self.answer) = given_answer THEN Returned("CORRECT")
    ELSE Returned("INCORRECT")

\* Arithmetic._check_answer: the bare except turns every failure of int() into
\* INVALID
_check_answer(self, given_answer) ==
    LET r == int(given_answer)
    IN  IF r.exc # "none" THEN Returned("INVALID")
        ELSE IF self.answer = r.val THEN Returned("CORRECT")
        ELSE Returned("INCORRECT")

\* log_response without the test for INVALID: every call appends a record
log_response_always_appends(self, given_answer, t) ==
    LET result == _check_answer(self, given_answer)
    IN  [card |-> [self EXCEPT !.responses =
                     Append(@, ResponseMetadata(result.val = "CORRECT",
                                                given_answer, t))],
         result |-> result]

\* log_response that keeps only the record of the last call
log_response_overwrites(self, given_answer, t) ==
    LET result == _check_answer(self, given_answer)
    IN  IF result.val # "INVALID"
        THEN [card |-> [self EXCEPT !.responses =
                          <<ResponseMetadata(result.val = "CORRECT",
                                             given_answer, t)>>],
              result |-> result]
        ELSE [card |-> self, result |-> result]

\* Card.log_response: the card after the call and the call's result
log_response(self, given_answer, t) ==
    LET result == _check_answer(self, given_answer)
    IN  IF result.exc # "none" THEN [card |-> self, result |-> result]
        ELSE IF result.val # "INVALID"
        THEN [card |-> [self EXCEPT !.responses =
                          Append(@, ResponseMetadata(result.val = "CORRECT",
                                                     given_answer, t))],
              result |-> result]
        ELSE [card |-> self, result |-> result]

num_correct(self) ==
    Cardinality({k \in 1 .. Len(self.responses) : self.responses[k].correct})

\* is_mastered with <= in place of <
is_mastered_at_threshold(self, time_threshold) ==
    LET num_incorrect == Len(self.responses) - num_correct(self)
    IN  IF Len(self.responses) > 0 /\ num_correct(self) > num_incorrect
        THEN LET tr == self.responses[Len(self.responses)]
             IN  IF tr.correct /\ tr.time <= time_threshold
                 THEN <<TRUE, tr.time>>
                 ELSE <<FALSE, 0>>
        ELSE <<FALSE, 0>>

\* Card.is_mastered: <<mastered, time of the last response>>
is_mastered(self, time_threshold) ==
    LET num_incorrect == Len(self.responses) - num_correct(self)
    IN  IF Len(self.responses) > 0 /\ num_correct(self) > num_incorrect
        THEN LET tr == self.responses[Len(self.responses)]
             IN  IF tr.correct /\ tr.time < time_threshold
                 THEN <<TRUE, tr.time>>
                 ELSE <<FALSE, 0>>
        ELSE <<FALSE, 0>>

(***************************************************************************)
(* list.sort for fewer than 64 elements: one run is found and the rest is  *)
(* inserted by binary search; reverse=True reverses before and after.      *)
(***************************************************************************)
reverse_slice(s) == [k \in 1 .. Len(s) |-> s[Len(s) + 1 - k]]

RECURSIVE run_end(_, _, _)
run_end(s, n, descending) ==
    IF n < Len(s) /\ (lt(s[n + 1], s[n]) = descending)
    THEN run_end(s, n + 1, descending)
    ELSE n

count_run(s) ==
    IF Len(s) < 2 THEN [n |-> Len(s), descending |-> FALSE]
    ELSE LET d == lt(s[2], s[1])
         IN  [n |-> run_end(s, 2, d), descending |-> d]

RECURSIVE bisect(_, _, _, _)
bisect(s, pivot, l, r) ==
    LET p == l + ((r - l) \div 2)
        l2 == IF lt(pivot, s[p]) THEN l ELSE p + 1
        r2 == IF lt(pivot, s[p]) THEN p ELSE r
    IN  IF l2 < r2 THEN bisect(s, pivot, l2, r2) ELSE l2

RECURSIVE binarysort(_, _)
binarysort(s, start) ==
    IF start > Len(s) THEN s
    ELSE LET pivot == s[start]
             l == bisect(s, pivot, 1, start)
         IN  binarysort(SubSeq(s, 1, l - 1) \o <<pivot>>
                          \o SubSeq(s, l, start - 1)
                          \o SubSeq(s, start + 1, Len(s)),
                        start + 1)

listsort(s) ==
    IF Len(s) < 2 THEN s
    ELSE LET run == count_run(s)
             s1 == IF run.descending
                   THEN reverse_slice(SubSeq(s, 1, run.n))
                          \o SubSeq(s, run.n + 1, Len(s))
                   ELSE s
         IN  binarysort(s1, run.n + 1)

\* sorted(cards, reverse=True)
sorted_reverse(cards) == reverse_slice(listsort(reverse_slice(cards)))

(***************************************************************************)
(* Deck.                                                                   *)
(***************************************************************************)
Deck(cards, time_threshold) ==
    [cards |-> cards, time_threshold |-> time_threshold]

response_as_yaml_dict(r) ==
    [correct |-> r.correct, answer |-> r.answer, time |-> r.time]

card_as_yaml_dict(c) ==
    [problem |-> c.problem, answer |-> c.answer,
     responses |-> [k \in 1 .. Len(c.responses) |->
                      response_as_yaml_dict(c.responses[k])]]

as_yaml_dict(self) ==
    LET worst == sorted_reverse(self.cards)
    IN  [time_threshold |-> self.time_threshold,
         cards |-> [k \in 1 .. Len(worst) |-> card_as_yaml_dict(worst[k])]]

\* a subscript of a dict raises KeyError when the key is missing
response_from_yaml_dict(d) ==
    IF {"correct", "answer", "time"} \subseteq DOMAIN d
    THEN Returned(ResponseMetadata(d.correct, d.answer, d.time))
    ELSE Raised("KeyError")

\* from_yaml_dict that leaves the responses out
card_from_yaml_dict_no_history(d) ==
    IF ~ ({"problem", "answer", "responses"} \subseteq DOMAIN d)
    THEN Raised("KeyError")
    ELSE Returned(Arithmetic(d.problem, d.answer))

card_from_yaml_dict(d) ==
    IF ~ ({"problem", "answer", "responses"} \subseteq DOMAIN d)
    THEN Raised("KeyError")
    ELSE LET rs == [k \in 1 .. Len(d.responses) |->
                      response_from_yaml_dict(d.responses[k])]
         IN  IF \E k \in 1 .. Len(rs) : rs[k].exc # "none"
             THEN Raised("KeyError")
             ELSE Returned([Arithmetic(d.problem, d.answer) EXCEPT
                              !.responses = [k \in 1 .. Len(rs) |-> rs[k].val]])

from_yaml_dict(d) ==
    IF ~ ("cards" \in DOMAIN d) THEN Raised("KeyError")
    ELSE LET cs == [k \in 1 .. Len(d.cards) |-> card_from_yaml_dict(d.cards[k])]
         IN  IF \E k \in 1 .. Len(cs) : cs[k].exc # "none"
             THEN Raised("KeyError")
             ELSE IF ~ ("time_threshold" \in DOMAIN d) THEN Raised("KeyError")
             ELSE Returned(Deck([k \in 1 .. Len(cs) |-> cs[k].val],
                                d.time_threshold))

\* Arithmetic.__repr__
repr(c) == c.problem \o str(c.answer)

\* Card.__str__: best_time starts at 10000
best_time(c) ==
    LET ts == {c.responses[k].time : k \in {j \in 1 .. Len(c.responses) :
                                               c.responses[j].correct}}
    IN  IF ts = {} \/ (\A t \in ts : t >= 10000) THEN 10000
        ELSE CHOOSE t \in ts : \A u \in ts : t <= u

card_str(c) ==
    [repr |-> repr(c), num_correct |-> num_correct(c),
     attempts |-> Len(c.responses), best_time |-> best_time(c)]

RECURSIVE sum_card_times(_)
sum_card_times(cs) ==
    IF Len(cs) = 0 THEN 0 ELSE time(Head(cs)) + sum_card_times(Tail(cs))

\* Deck.worst_cards: the total time of the heading and one line per card
worst_cards(self) ==
    LET worst == sorted_reverse(self.cards)
    IN  [total_time |-> sum_card_times(self.cards),
         lines |-> [k \in 1 .. Len(worst) |-> card_str(worst[k])]]

\* self.cards after list.sort(reverse=True) on the deck's own list
cards_sorted_in_place(cards) == sorted_reverse(cards)

\* self.cards after sorted(self.cards, reverse=True): sorted() builds a new
\* list and leaves its argument as it was
cards_after_sorted(cards) == cards

\* the cards after card i has logged a response, had all cards one history
\* list in common: the record shows in every history
cards_after_log_shared(cards, i, card) ==
    [k \in 1 .. Len(cards) |-> [cards[k] EXCEPT !.responses = card.responses]]

\* the cards of a deck after cards[i].log_response has left card i as card:
\* Card.__init__ gives every card a list of its own, and append changes
\* that list alone
cards_after_log(cards, i, card) == [cards EXCEPT ![i] = card]

\* on_deck with the "not" dropped: the mastered cards
on_deck_mastered(self) ==
    {i \in 1 .. Len(self.cards) :
        is_mastered(self.cards[i], self.time_threshold)[1]}

on_deck(self) ==
    {i \in 1 .. Len(self.cards) :
        ~ is_mastered(self.cards[i], self.time_threshold)[1]}

\* min in place of max: the first card with the least key
min_mastery_time(self) ==
    LET key(i) == is_mastered(self.cards[i], self.time_threshold)[2]
    IN  CHOOSE i \in 1 .. Len(self.cards) :
            /\ \A j \in 1 .. Len(self.cards) : key(i) <= key(j)
            /\ \A j \in 1 .. i - 1 : key(i) < key(j)

\* max(cards, key): the first card whose key no other card exceeds
max_mastery_time(self) ==
    LET key(i) == is_mastered(self.cards[i], self.time_threshold)[2]
    IN  CHOOSE i \in 1 .. Len(self.cards) :
            /\ \A j \in 1 .. Len(self.cards) : key(j) <= key(i)
            /\ \A j \in 1 .. i - 1 : key(j) < key(i)

\* get_card that answers None (index 0) for a deck without cards
get_card_sentinel(self) ==
    IF on_deck(self) # {} THEN {Returned(i) : i \in on_deck(self)}
    ELSE IF Len(self.cards) = 0 THEN {Returned(0)}
    ELSE {Returned(max_mastery_time(self))}

\* get_card that chooses among all the cards, mastered or not
get_card_any(self) ==
    IF Len(self.cards) = 0 THEN {Raised("ValueError")}
    ELSE {Returned(i) : i \in 1 .. Len(self.cards)}

\* Deck.get_card: every result the call can have; a card is its index
get_card(self) ==
    IF on_deck(self) # {} THEN {Returned(i) : i \in on_deck(self)}
    ELSE IF Len(self.cards) = 0 THEN {Raised("ValueError")}
    ELSE {Returned(max_mastery_time(self))}

\* progress that counts the cards that are not mastered
progress_unmastered(self) ==
    <<Cardinality({i \in 1 .. Len(self.cards) :
                     ~ is_mastered(self.cards[i], self.time_threshold)[1]}),
      Len(self.cards)>>

\* Deck.progress
progress(self) ==
    <<Cardinality({i \in 1 .. Len(self.cards) :
                     is_mastered(self.cards[i], self.time_threshold)[1]}),
      Len(self.cards)>>

(***************************************************************************)
(* The generators.  A pair is <<x, y>>; limits are <<min, max>>, None is   *)
(* the empty tuple.  In a problem text "*" stands for the multiplication   *)
(* sign, "/" for the division sign and "r" for the root sign.              *)
(***************************************************************************)
\* range(lo, hi)
range(lo, hi) == [k \in 1 .. (IF hi > lo THEN hi - lo ELSE 0) |-> lo + k - 1]

generate_pairs(a_lims, b_lims, range_type) ==
    LET b_lims2 == IF Len(b_lims) = 0 THEN a_lims ELSE b_lims
        a == range(a_lims[1], a_lims[2] + 1)
        b == range(b_lims2[1], b_lims2[2] + 1)
    IN  IF range_type = "OuterProduct"
        THEN [k \in 1 .. Len(a) * Len(b) |->
                <<a[((k - 1) \div Len(b)) + 1], b[((k - 1) % Len(b)) + 1]>>]
        ELSE [k \in 1 .. (IF Len(a) < Len(b) THEN Len(a) ELSE Len(b)) |->
                <<a[k], b[k]>>]

generate_addition(vals, time_threshold) ==
    Deck([k \in 1 .. Len(vals) |->
            Arithmetic(str(vals[k][1]) \o <<" ", "+", " ">> \o str(vals[k][2])
                         \o <<" ", "=", " ">>,
                       vals[k][1] + vals[k][2])],
         time_threshold)

generate_subtraction(vals, time_threshold) ==
    Deck([k \in 1 .. Len(vals) |->
            Arithmetic(str(vals[k][1] + vals[k][2]) \o <<" ", "-", " ">>
                         \o str(vals[k][1]) \o <<" ", "=", " ">>,
                       vals[k][2])],
         time_threshold)

generate_multiplication(vals, time_threshold) ==
    Deck([k \in 1 .. Len(vals) |->
            Arithmetic(str(vals[k][1]) \o <<" ", "*", " ">> \o str(vals[k][2])
                         \o <<" ", "=", " ">>,
                       vals[k][1] * vals[k][2])],
         time_threshold)

\* a loop over vals that keeps every pair
all_pairs(vals) == vals

\* the pairs a loop over vals keeps, in order
RECURSIVE nonzero_first(_)
nonzero_first(vals) ==
    IF Len(vals) = 0 THEN <<>>
    ELSE IF ~ (Head(vals)[1] = 0)
    THEN <<Head(vals)>> \o nonzero_first(Tail(vals))
    ELSE nonzero_first(Tail(vals))

generate_division(vals, time_threshold) ==
    LET kept == nonzero_first(vals)
    IN  Deck([k \in 1 .. Len(kept) |->
                Arithmetic(str(kept[k][1] * kept[k][2]) \o <<" ", "/", " ">>
                             \o str(kept[k][1]) \o <<" ", "=", " ">>,
                           kept[k][2])],
             time_threshold)

generate_square_roots(vals, time_threshold) ==
    Deck([k \in 1 .. Len(vals) |->
            Arithmetic(<<"r">> \o str(vals[k][1] * vals[k][1])
                         \o <<" ", "=", " ">>,
                       vals[k][1])],
         time_threshold)

(***************************************************************************)
(* What the home screen can build: the range spin boxes keep min <= max,   *)
(* the Pairs box selects InnerProduct with no second range and turns the   *)
(* division button into the square-root button.                            *)
(***************************************************************************)
\* get_vals
get_vals(range_a, range_b, pairs) ==
    IF pairs THEN generate_pairs(range_a, <<>>, "InnerProduct")
    ELSE generate_pairs(range_a, range_b, "OuterProduct")

(***************************************************************************)
(* The backend driven by any caller: a generated deck, and the operations  *)
(* of Card and Deck called in any order.                                   *)
(***************************************************************************)
\* the answers a caller submits: a signed number, a plain number, text that
\* is no number, nothing
Inputs == {<<"+", "1">>, <<"2">>, <<"1", "x">>, <<>>}

Outcome(op, arg, r) == [op |-> op, arg |-> arg, exc |-> r.exc, val |-> r.val]

RECURSIVE total_responses(_)
total_responses(cs) ==
    IF Len(cs) = 0 THEN 0
    ELSE Len(Head(cs).responses) + total_responses(Tail(cs))

GuiIdle ==
    /\ screen = "home"
    /\ current_card = 0
    /\ incorrect_delay = FALSE
    /\ answer_box = "deleted"
    /\ timer = FALSE
    /\ stale = 0

\* the decks the caller starts from: two cards (answers 1 and 2), one card,
\* and the deck of a division by zero alone
StartDecks ==
    {generate_addition(get_vals(<<0, 1>>, <<1, 1>>, FALSE), th) :
        th \in Thresholds}
    \cup {generate_square_roots(get_vals(<<1, 1>>, <<>>, TRUE), th) :
             th \in Thresholds}
    \cup {generate_division(get_vals(<<0, 0>>, <<0, 1>>, FALSE), th) :
             th \in Thresholds}

Init ==
    /\ deck \in StartDecks
    /\ ret = Outcome("init", 0, Returned(0))
    /\ GuiIdle

\* c.log_response(given, t) on card i of the deck
LogResponse ==
    \E i \in 1 .. Len(deck.cards), given \in Inputs, t \in Times :
        LET r == log_response(deck.cards[i], given, t)
        IN  /\ total_responses(deck.cards) - Len(deck.cards[i].responses)
                 + Len(r.card.responses) <= MaxResp
            /\ deck' = [deck EXCEPT !.cards = cards_after_log(@, i, r.card)]
            /\ ret' = Outcome("log_response", i, r.result)
            /\ UNCHANGED gui_vars

GetCard ==
    /\ \E r \in get_card(deck) : ret' = Outcome("get_card", 0, r)
    /\ UNCHANGED <<deck, gui_vars>>

Progress ==
    /\ ret' = Outcome("progress", 0, Returned(progress(deck)))
    /\ UNCHANGED <<deck, gui_vars>>

WorstCards ==
    /\ ret' = Outcome("worst_cards", 0, Returned(worst_cards(deck)))
    /\ deck' = [deck EXCEPT !.cards = cards_after_sorted(@)]
    /\ UNCHANGED gui_vars

AsYamlDict ==
    /\ ret' = Outcome("as_yaml_dict", 0, Returned(as_yaml_dict(deck)))
    /\ deck' = [deck EXCEPT !.cards = cards_after_sorted(@)]
    /\ UNCHANGED gui_vars

\* Deck.from_yaml_dict of the document as_yaml_dict has just returned
FromYamlDict ==
    /\ ret.op = "as_yaml_dict"
    /\ ret' = Outcome("from_yaml_dict", 0, from_yaml_dict(ret.val))
    /\ UNCHANGED <<deck, gui_vars>>

Next ==
    \/ LogResponse
    \/ GetCard
    \/ Progress
    \/ WorstCards
    \/ AsYamlDict
    \/ FromYamlDict

Spec == Init /\ [][Next]_vars

(***************************************************************************)
(* Properties of the backend (specification Spec).                         *)
(***************************************************************************)
Cards == 1 .. Len(deck.cards)

Mastered(i) == is_mastered(deck.cards[i], deck.time_threshold)[1]

MasteryTime(i) == is_mastered(deck.cards[i], deck.time_threshold)[2]

\* C1: when get_card is called on a deck with at least one unmastered card,
\* the card it returns is unmastered.
C1_GetCardUnmastered ==
    (ret.op = "get_card" /\ \E i \in Cards : ~ Mastered(i))
        => /\ ret.exc = "none"
           /\ ret.val \in Cards
           /\ ~ Mastered(ret.val)

\* a mastered and an unmastered card in the deck, and get_card has returned
C1_Witness ==
    /\ ret.op = "get_card"
    /\ \E i \in Cards : ~ Mastered(i)
    /\ \E i \in Cards : Mastered(i)

\* the values of the mastery-time spin box
MasteryTimeRange == 1 .. 15

RECURSIVE count_where(_, _)
count_where(rs, flag) ==
    IF Len(rs) = 0 THEN 0
    ELSE (IF Head(rs).correct = flag THEN 1 ELSE 0) + count_where(Tail(rs), flag)

\* C2: for every history and every threshold, is_mastered is (TRUE, elapsed
\* of the last record) iff the history is non-empty, it has more correct than
\* incorrect records, the last record is correct and its elapsed time is
\* strictly below the threshold; otherwise it is (FALSE, 0).
C2_IsMasteredRule ==
    \A i \in Cards, th \in MasteryTimeRange :
        LET rs == deck.cards[i].responses
            ok == /\ Len(rs) > 0
                  /\ count_where(rs, TRUE) > count_where(rs, FALSE)
                  /\ rs[Len(rs)].correct
                  /\ rs[Len(rs)].time < th
        IN  is_mastered(deck.cards[i], th)
              = IF ok THEN <<TRUE, rs[Len(rs)].time>> ELSE <<FALSE, 0>>

\* a card whose last answer is correct, with more correct than incorrect
\* answers, and elapsed exactly the deck's threshold: not mastered
C2_Witness ==
    \E i \in Cards :
        LET rs == deck.cards[i].responses
        IN  /\ Len(rs) > 1
            /\ count_where(rs, TRUE) > count_where(rs, FALSE)
            /\ rs[Len(rs)].correct
            /\ rs[Len(rs)].time = deck.time_threshold
            /\ ~ Mastered(i)

\* C3: a log_response call lengthens the history of its card by one when its
\* outcome is CORRECT or INCORRECT and not at all when it is INVALID (so a
\* history that starts empty is as long as the number of such calls).
C3_HistoryLength ==
    [][ret'.op = "log_response" =>
         \A i \in Cards :
            Len(deck'.cards[i].responses)
              = Len(deck.cards[i].responses)
                  + (IF i = ret'.arg /\ ret'.val \in {"CORRECT", "INCORRECT"}
                     THEN 1 ELSE 0)]_vars

\* an INVALID call on a card that already has records
C3_Witness ==
    /\ ret.op = "log_response"
    /\ ret.val = "INVALID"
    /\ Len(deck.cards[ret.arg].responses) > 1

\* C4: when every card of a non-empty deck is mastered, get_card returns a
\* card whose mastery time is the maximum over the deck.
C4_GetCardMaxMasteryTime ==
    (ret.op = "get_card" /\ Len(deck.cards) > 0 /\ \A i \in Cards : Mastered(i))
        => /\ ret.exc = "none"
           /\ ret.val \in Cards
           /\ \A j \in Cards : MasteryTime(j) <= MasteryTime(ret.val)

\* all cards mastered with different mastery times, and get_card has returned
C4_Witness ==
    /\ ret.op = "get_card"
    /\ \A i \in Cards : Mastered(i)
    /\ \E i, j \in Cards : MasteryTime(i) < MasteryTime(j)

\* the cards of a, in some order, have the problem, answer and responses of
\* the cards of b
SameCards(a, b) ==
    /\ Len(a) = Len(b)
    /\ \A k \in 1 .. Len(a) :
          LET same(c) == /\ c.problem = a[k].problem
                         /\ c.answer = a[k].answer
                         /\ c.responses = a[k].responses
          IN  Cardinality({j \in 1 .. Len(a) : same(a[j])})
                = Cardinality({j \in 1 .. Len(b) : same(b[j])})

\* C6: from_yaml_dict(x.as_yaml_dict()) has the threshold of x and the cards
\* of x (problem, answer, responses in their order), in some card order.
C6_RoundTrip ==
    ret.op = "from_yaml_dict"
        => /\ ret.exc = "none"
           /\ ret.val.time_threshold = deck.time_threshold
           /\ SameCards(ret.val.cards, deck.cards)

\* a round trip of a deck with histories, which reorders the cards
C6_Witness ==
    /\ ret.op = "from_yaml_dict"
    /\ ret.exc = "none"
    /\ Len(deck.cards) > 1
    /\ \A i \in Cards : Len(deck.cards[i].responses) > 0
    /\ ret.val.cards[1].problem # deck.cards[1].problem

\* short texts over the characters int() tells apart
Chars == {" ", "-", "_", "1", "2", "x"}

Texts == {<<>>} \cup {<<a>> : a \in Chars} \cup {<<a, b>> : a, b \in Chars}

\* C7: log_response returns CORRECT, INCORRECT or INVALID for every input and
\* never raises; after an INVALID result the history of the card, its
\* is_mastered and the progress of the deck are what they were.
C7_InvalidIsReturned ==
    /\ [](\A i \in Cards, given \in Texts :
            LET r == _check_answer(deck.cards[i], given)
            IN  /\ r.exc = "none"
                /\ r.val \in {"CORRECT", "INCORRECT", "INVALID"})
    /\ [][ret'.op = "log_response" =>
            /\ ret'.exc = "none"
            /\ ret'.val \in {"CORRECT", "INCORRECT", "INVALID"}
            /\ ret'.val = "INVALID" =>
                  /\ deck'.cards[ret'.arg].responses
                       = deck.cards[ret'.arg].responses
                  /\ is_mastered(deck'.cards[ret'.arg], deck'.time_threshold)
                       = is_mastered(deck.cards[ret'.arg], deck.time_threshold)
                  /\ progress(deck') = progress(deck)]_vars

\* an INVALID result on a mastered card
C7_Witness ==
    /\ ret.op = "log_response"
    /\ ret.exc = "none"
    /\ ret.val = "INVALID"
    /\ Mastered(ret.arg)

\* C8: get_card on a deck with no cards fails with an error and returns
\* nothing.
C8_GetCardEmptyFails ==
    (ret.op = "get_card" /\ Len(deck.cards) = 0) => ret.exc # "none"

\* get_card has been called on the deck of a division by zero alone
C8_Witness ==
    /\ ret.op = "get_card"
    /\ Len(deck.cards) = 0
    /\ ret.exc = "ValueError"

\* C10: in the listing of worst_cards and in the cards of as_yaml_dict, a
\* card with strictly more responses than another comes before it.
C10_MoreResponsesFirst ==
    /\ ret.op = "worst_cards" =>
          \A p, q \in 1 .. Len(ret.val.lines) :
             ret.val.lines[q].attempts > ret.val.lines[p].attempts => q < p
    /\ ret.op = "as_yaml_dict" =>
          \A p, q \in 1 .. Len(ret.val.cards) :
             Len(ret.val.cards[q].responses) > Len(ret.val.cards[p].responses)
               => q < p

\* the answers _check_answer is asked about: the short texts and some of
\* three characters
AnswerTexts ==
    Texts \cup {<<"+", "1">>, <<"+", "2">>, <<"0", "2">>, <<"1", "_", "2">>,
                <<" ", "2", " ">>, <<"+", " ", "1">>, <<"1", " ", "2">>,
                <<"2", ".", "0">>, <<"-", "_", "1">>, <<"+", "-", "1">>}

\* the text between the first and the last character that is no whitespace
Core(s) ==
    LET inked == {k \in 1 .. Len(s) : s[k] \notin Whitespace}
    IN  IF inked = {} THEN <<>>
        ELSE SubSeq(s, CHOOSE k \in inked : \A j \in inked : k <= j,
                       CHOOSE k \in inked : \A j \in inked : j <= k)

Unsigned(t) == IF Len(t) > 0 /\ t[1] \in {"+", "-"} THEN Tail(t) ELSE t

\* an integer literal: digits, with single underscores only between digits
IsInteger(s) ==
    LET u == Unsigned(Core(s))
    IN  /\ Len(u) > 0
        /\ \A k \in 1 .. Len(u) : u[k] \in DigitChars \cup {"_"}
        /\ u[1] \in DigitChars
        /\ u[Len(u)] \in DigitChars
        /\ \A k \in 1 .. Len(u) - 1 : ~ (u[k] = "_" /\ u[k + 1] = "_")

RECURSIVE Magnitude(_)
Magnitude(u) ==
    IF Len(u) = 0 THEN 0
    ELSE LET front == SubSeq(u, 1, Len(u) - 1)
         IN  IF u[Len(u)] = "_" THEN Magnitude(front)
             ELSE 10 * Magnitude(front) + digit_value(u[Len(u)])

IntegerValue(s) ==
    IF Core(s)[1] = "-" THEN 0 - Magnitude(Unsigned(Core(s)))
    ELSE Magnitude(Unsigned(Core(s)))

\* C16: for an arithmetic card and every input text, _check_answer returns
\* INVALID iff the text is no integer, CORRECT iff it is an integer equal to
\* the expected answer, INCORRECT iff it is a different integer; and so does
\* every call that log_response has made.
C16_CheckAnswer ==
    /\ \A i \in Cards, given \in AnswerTexts :
          LET r == _check_answer(deck.cards[i], given)
          IN  /\ r.exc = "none"
              /\ r.val \in {"CORRECT", "INCORRECT", "INVALID"}
              /\ r.val = "INVALID" <=> ~ IsInteger(given)
              /\ r.val = "CORRECT" <=>
                    (IsInteger(given)
                       /\ IntegerValue(given) = deck.cards[i].answer)
              /\ r.val = "INCORRECT" <=>
                    (IsInteger(given)
                       /\ IntegerValue(given) # deck.cards[i].answer)
    /\ (ret.op = "log_response" /\ ret.val \in {"CORRECT", "INCORRECT"}) =>
          LET c == deck.cards[ret.arg]
              given == c.responses[Len(c.responses)].answer
          IN  /\ IsInteger(given)
              /\ ret.val = "CORRECT" <=> IntegerValue(given) = c.answer

\* log_response has found the signed text "+1" correct
C16_Witness ==
    /\ ret.op = "log_response"
    /\ ret.val = "CORRECT"
    /\ LET c == deck.cards[ret.arg]
       IN  /\ c.responses[Len(c.responses)].answer = <<"+", "1">>
           /\ c.answer = 1

(***************************************************************************)
(* The report and the snapshot of decks of three cards with any recorded   *)
(* histories: worst_cards and as_yaml_dict as functions of the deck.       *)
(***************************************************************************)
\* bound: records in the history of a card of such a deck
MaxHistory == 2

\* the elapsed times of the records, in ticks
ReportTimes == {1, 3, 4}

\* the sequences of at most n elapsed times
RECURSIVE Elapsed(_)
Elapsed(n) ==
    IF n = 0 THEN {<<>>}
    ELSE Elapsed(n - 1)
           \cup {Append(h, t) : h \in {g \in Elapsed(n - 1) : Len(g) = n - 1},
                                t \in ReportTimes}

\* the card after the answer "2" has been logged with each of the times ts
RECURSIVE answered(_, _)
answered(c, ts) ==
    IF Len(ts) = 0 THEN c
    ELSE answered(log_response(c, <<"2">>, Head(ts)).card, Tail(ts))

\* 0 + 1, 1 + 1 and 2 + 1 with every history
ReportDecks ==
    LET d == generate_addition(get_vals(<<0, 2>>, <<1, 1>>, FALSE), 5)
    IN  {[d EXCEPT !.cards = <<answered(d.cards[1], h1),
                               answered(d.cards[2], h2),
                               answered(d.cards[3], h3)>>] :
           h1 \in Elapsed(MaxHistory), h2 \in Elapsed(MaxHistory),
           h3 \in Elapsed(MaxHistory)}

InitReport ==
    /\ deck \in ReportDecks
    /\ ret = Outcome("init", 0, Returned(0))
    /\ GuiIdle

NextReport ==
    \/ WorstCards
    \/ AsYamlDict

SpecReport == InitReport /\ [][NextReport]_vars

\* the card of the deck that a line of the report is about
card_of(line) ==
    deck.cards[CHOOSE i \in Cards : repr(deck.cards[i]) = line.repr]

\* in the listing cs a card with fewer responses than another comes before
\* it, and of two cards with as many responses the one with the greater
\* total time comes first
FewerThenSlowerFirst(cs) ==
    \A p, q \in 1 .. Len(cs) :
        /\ Len(cs[p].responses) < Len(cs[q].responses) => p < q
        /\ (/\ Len(cs[p].responses) = Len(cs[q].responses)
            /\ sum_times(cs[p].responses) > sum_times(cs[q].responses))
              => p < q

\* C11: in the listing of worst_cards and in the cards of as_yaml_dict, a
\* card with strictly fewer responses than another comes before it, and among
\* cards with equal response counts the one with the greater total elapsed
\* time comes first.
C11_FewerResponsesFirst ==
    /\ ret.op = "worst_cards" =>
          FewerThenSlowerFirst([k \in 1 .. Len(ret.val.lines) |->
                                  card_of(ret.val.lines[k])])
    /\ ret.op = "as_yaml_dict" => FewerThenSlowerFirst(ret.val.cards)

\* C12: Card.__lt__ is a strict weak ordering of the cards: irreflexive,
\* asymmetric and transitive, and two cards are unordered only when they have
\* equal response counts and equal total elapsed times.
C12_StrictWeakOrder ==
    \A a, b, c \in {deck.cards[i] : i \in Cards} :
        /\ ~ lt(a, a)
        /\ ~ (lt(a, b) /\ lt(b, a))
        /\ (lt(a, b) /\ lt(b, c)) => lt(a, c)
        /\ (~ lt(a, b) /\ ~ lt(b, a))
              => /\ Len(a.responses) = Len(b.responses)
                 /\ time(a) = time(b)

(***************************************************************************)
(* The practice session of the front end (FlashCards.home and run_deck).   *)
(* Every handler is one step of the Qt event loop.                         *)
(***************************************************************************)
\* bound: single-shot timers of left sessions that are still pending
MaxStale == 1

\* settings of the home screen: the mastery time, the two ranges and the
\* Pairs box
Settings ==
    {[mastery_time |-> 3, range_a |-> <<0, 1>>, range_b |-> <<1, 1>>,
      pairs |-> FALSE],
     [mastery_time |-> 2, range_a |-> <<0, 0>>, range_b |-> <<1, 1>>,
      pairs |-> FALSE],
     [mastery_time |-> 2, range_a |-> <<1, 1>>, range_b |-> <<0, 1>>,
      pairs |-> TRUE]}

\* what the user types into the answer field before pressing return
Typed == {<<" ", "+", "1">>, <<"2">>, <<"1", "x">>, <<>>}

\* the text on_answer_given leaves in the answer field it disables
IncorrectText == <<"I", "n", "c", "o", "r", "r", "e", "c", "t", "!">>

\* a file chosen in the open dialog: its path ("" when the dialog is
\* cancelled) and the document yaml.load reads from it
played ==
    LET d == generate_addition(get_vals(<<0, 1>>, <<1, 1>>, FALSE), 3)
        c1 == log_response(d.cards[1], <<"2">>, 3).card
        c2 == log_response(log_response(d.cards[2], <<"2">>, 1).card,
                           <<"2">>, 2).card
    IN  [d EXCEPT !.cards = <<log_response(c1, <<"1">>, 1).card, c2>>]

\* the snapshot of played with the responses of its second card missing
broken ==
    LET doc == as_yaml_dict(played)
    IN  [doc EXCEPT !.cards[2] = [problem |-> @.problem, answer |-> @.answer]]

Files ==
    {[path |-> <<"d", ".", "y", "m", "l">>, doc |-> as_yaml_dict(played)],
     [path |-> <<"e", ".", "y", "m", "l">>,
      doc |-> as_yaml_dict(generate_division(get_vals(<<0, 0>>, <<0, 1>>,
                                                      FALSE), 2))],
     [path |-> <<"b", ".", "y", "m", "l">>, doc |-> broken],
     [path |-> <<>>, doc |-> [cards |-> <<>>]]}

\* load_deck: open() fails on the empty path
load_deck(file) ==
    IF Len(file.path) = 0 THEN Raised("FileNotFoundError")
    ELSE from_yaml_dict(file.doc)

\* an exception that leaves a slot: PyQt aborts the process, or (with an
\* except hook, or before PyQt 5.5) reports it and the event loop goes on
slot_raised == {"reported", "aborted"}

\* a report branch without answer.deleteLater()
report_answer_box_kept == "enabled"

\* answer.deleteLater() of the report branch
report_answer_box == "deleted"

\* the card self.current_card refers to; after a failed run_deck it is a card
\* of the deck that self.deck no longer holds
current_card_object ==
    IF current_card \in 1 .. Len(deck.cards) THEN deck.cards[current_card]
    ELSE Arithmetic(<<>>, 0)

Gui(d, scr, card, delay, box, r, schedule) ==
    [deck |-> d, screen |-> scr, current_card |-> card,
     incorrect_delay |-> delay, answer_box |-> box, ret |-> r,
     schedule |-> schedule]

\* the state after exception e has left handler op, which had brought the
\* session to (d, card, delay); nothing is left of an aborted process
Unhandled(op, e, how, d, card, delay) ==
    LET r == [Outcome(op, 0, Raised(e)) EXCEPT !.val = "raised"]
    IN  IF how = "aborted"
        THEN Gui(Deck(<<>>, 0), "crashed", 0, FALSE, "deleted", r, FALSE)
        ELSE Gui(d, screen, card, delay, answer_box, r, FALSE)

\* lines 308-323 of on_answer_given: show the next card, or the report.
\* own: the handler belongs to the session on screen (its widgets are the
\* ones shown)
advance(op, d, delay, box, own) ==
    IF progress(d)[1] < progress(d)[2]
    THEN UNION {IF g.exc = "none"
                THEN {Gui(d, screen, g.val, delay, box,
                          Outcome(op, 0, Returned("next")), FALSE)}
                ELSE {Unhandled(op, g.exc, how, d, current_card, delay) :
                        how \in slot_raised} :
                  g \in get_card(d)}
    ELSE {Gui(d, IF own THEN "report" ELSE screen, current_card, delay,
              IF own THEN report_answer_box ELSE box,
              Outcome(op, 0, Returned("report")), FALSE)}

\* on_answer_given: every state it can leave.  text is the content of the
\* handler's answer field, t the elapsed time, alive whether the widgets of a
\* handler of a left session still exist
on_answer_given(op, text, t, own, alive) ==
    IF ~ incorrect_delay
    THEN IF ~ own /\ ~ alive
         THEN {Unhandled(op, "RuntimeError", how, deck, current_card,
                         incorrect_delay) : how \in slot_raised}
         ELSE LET r == log_response(current_card_object, strip(text), t)
                  d == IF current_card \in 1 .. Len(deck.cards)
                       THEN [deck EXCEPT !.cards[current_card] = r.card]
                       ELSE deck
              IN  IF r.result.val = "INCORRECT"
                  THEN {Gui(d, screen, current_card, TRUE,
                            IF own THEN "disabled" ELSE answer_box,
                            Outcome(op, 0, r.result), TRUE)}
                  ELSE IF r.result.val = "INVALID"
                  THEN {Gui(d, screen, current_card, incorrect_delay,
                            answer_box, Outcome(op, 0, r.result), FALSE)}
                  ELSE advance(op, d, incorrect_delay, answer_box, own)
    ELSE IF ~ own /\ ~ alive
         THEN {Unhandled(op, "RuntimeError", how, deck, current_card, FALSE) :
                 how \in slot_raised}
         ELSE advance(op, deck, FALSE,
                      IF own THEN "enabled" ELSE answer_box, own)

\* the variables after a handler
Apply(o) ==
    /\ deck' = o.deck
    /\ screen' = o.screen
    /\ current_card' = o.current_card
    /\ incorrect_delay' = o.incorrect_delay
    /\ answer_box' = o.answer_box
    /\ ret' = o.ret

\* run_deck with self.deck = d: get_card, then the session's widgets.  The
\* outcome records the number of cards of the deck it was called on
run_deck(d) ==
    UNION {IF g.exc = "none"
           THEN {Gui(d, "run", g.val, FALSE, "enabled",
                     Outcome("run_deck", Len(d.cards), Returned("started")),
                     FALSE)}
           ELSE {[Unhandled("run_deck", g.exc, how, d, current_card,
                            incorrect_delay)
                    EXCEPT !.ret.arg = Len(d.cards)] : how \in slot_raised} :
             g \in get_card(d)}

\* the timers of left sessions after a handler that found `pending` of them
Timers(o, pending) == IF o.screen = "crashed" THEN 0 ELSE pending

\* the end of every click handler: self.deck = d, then self.run_deck()
Start(d) ==
    \E o \in run_deck(d) :
       /\ Apply(o)
       /\ timer' = FALSE
       /\ stale' = Timers(o, stale)

OnAdditionClicked ==
    /\ screen = "home"
    /\ \E s \in Settings :
          Start(generate_addition(get_vals(s.range_a, s.range_b, s.pairs),
                                  s.mastery_time))

OnSubtractionClicked ==
    /\ screen = "home"
    /\ \E s \in Settings :
          Start(generate_subtraction(get_vals(s.range_a, s.range_b, s.pairs),
                                     s.mastery_time))

OnMultiplicationClicked ==
    /\ screen = "home"
    /\ \E s \in Settings :
          Start(generate_multiplication(get_vals(s.range_a, s.range_b,
                                                 s.pairs), s.mastery_time))

\* on_pairs_changed connects the fourth button to on_division_clicked while
\* the Pairs box is clear, to on_sqrt_clicked while it is checked
OnDivisionClicked ==
    /\ screen = "home"
    /\ \E s \in Settings :
          /\ ~ s.pairs
          /\ Start(generate_division(get_vals(s.range_a, s.range_b, s.pairs),
                                     s.mastery_time))

OnSqrtClicked ==
    /\ screen = "home"
    /\ \E s \in Settings :
          /\ s.pairs
          /\ Start(generate_square_roots(get_vals(s.range_a, s.range_b,
                                                  s.pairs), s.mastery_time))

\* a loaded deck with the histories as they were decoded
not_cleared(d) == d

\* the deck with the history of every card cleared
cleared(d) ==
    [d EXCEPT !.cards = [k \in 1 .. Len(d.cards) |->
                           [d.cards[k] EXCEPT !.responses = <<>>]]]

\* the outcomes of run_deck on a deck that was loaded: a session that has
\* started is marked as started from a file
run_loaded(d) ==
    {IF o.ret.exc = "none" THEN [o EXCEPT !.ret.val = "loaded"] ELSE o :
       o \in run_deck(d)}

\* on_custom_clicked with self.deck assigned before the snapshot is decoded:
\* a failed load leaves a deck without cards
on_custom_clicked_partial(file) ==
    LET l == load_deck(file)
    IN  IF l.exc = "none" THEN run_loaded(cleared(l.val))
        ELSE {Unhandled("load_deck", l.exc, how, Deck(<<>>, 0), current_card,
                        incorrect_delay) : how \in slot_raised}

\* on_custom_clicked for the file chosen: every state it can leave.  An
\* exception of load_deck leaves the handler before self.deck is assigned
on_custom_clicked(file) ==
    LET l == load_deck(file)
    IN  IF l.exc = "none" THEN run_loaded(cleared(l.val))
        ELSE {Unhandled("load_deck", l.exc, how, deck, current_card,
                        incorrect_delay) : how \in slot_raised}

OnCustomClicked ==
    /\ screen = "home"
    /\ \E file \in Files :
          \E o \in on_custom_clicked(file) :
             /\ Apply(o)
             /\ timer' = FALSE
             /\ stale' = Timers(o, stale)

\* the user presses return in the answer field
OnAnswerGiven ==
    /\ screen \in {"run", "report"}
    /\ answer_box = "enabled"
    /\ \E text \in Typed, t \in Times :
          \E o \in on_answer_given("on_answer_given", text, t, TRUE, TRUE) :
             /\ total_responses(o.deck.cards) <= MaxResp
             /\ Apply(o)
             /\ timer' = (o.screen # "crashed" /\ (timer \/ o.schedule))
             /\ stale' = Timers(o, stale)

\* the single-shot timer of the session on screen fires
TimerFired ==
    /\ screen = "run"
    /\ timer
    /\ \E t \in Times :
          \E o \in on_answer_given("timer", IncorrectText, t, TRUE, TRUE) :
             /\ Apply(o)
             /\ timer' = (o.screen # "crashed" /\ o.schedule)
             /\ stale' = Timers(o, stale)

\* a single-shot timer of a session that was left fires
StaleTimerFired ==
    /\ screen # "crashed"
    /\ stale > 0
    /\ \E t \in Times, alive \in BOOLEAN :
          \E o \in on_answer_given("stale_timer", IncorrectText, t, FALSE,
                                   alive) :
             /\ Apply(o)
             /\ timer' = (o.screen # "crashed" /\ timer)
             /\ stale' = Timers(o, stale - 1 + (IF o.schedule THEN 1 ELSE 0))

\* go_home: the window is replaced; a pending timer keeps its handler
GoHome ==
    /\ screen \in {"run", "report"}
    /\ timer => stale < MaxStale
    /\ screen' = "home"
    /\ answer_box' = "deleted"
    /\ timer' = FALSE
    /\ stale' = stale + (IF timer THEN 1 ELSE 0)
    /\ ret' = Outcome("go_home", 0, Returned("home"))
    /\ UNCHANGED <<deck, current_card, incorrect_delay>>

GuiInit ==
    /\ deck = Deck(<<>>, 0)
    /\ ret = Outcome("init", 0, Returned("home"))
    /\ GuiIdle

GuiNext ==
    \/ OnAdditionClicked
    \/ OnSubtractionClicked
    \/ OnMultiplicationClicked
    \/ OnDivisionClicked
    \/ OnSqrtClicked
    \/ OnCustomClicked
    \/ OnAnswerGiven
    \/ TimerFired
    \/ StaleTimerFired
    \/ GoHome

SpecGui == GuiInit /\ [][GuiNext]_vars

(***************************************************************************)
(* Properties of the session.                                              *)
(***************************************************************************)
\* Claim C5: a session is Complete (it shows the report) as soon as progress()
\* reports completed = total, so a session still asking has completed < total;
\* and Complete is terminal: while the report is shown no handler selects a
\* card or logs a response, so the deck stays as it is with completed = total.
C5_CompleteIsTerminal ==
    /\ [](screen = "run" => progress(deck)[1] < progress(deck)[2])
    /\ [](screen = "report" => progress(deck)[1] = progress(deck)[2])
    /\ [][screen = "report" /\ screen' = "report"
            => deck' = deck /\ current_card' = current_card]_vars

\* a handler has run while the report was shown: the timer of an earlier
\* session fired and returned without reaching the deck
C5_Witness ==
    /\ screen = "report"
    /\ ret.op = "stale_timer"
    /\ ret.exc = "none"
    /\ progress(deck)[2] > 0

\* Claim C9: every deck that run_deck is invoked on (by any generator button,
\* for any selectable range, or loaded from a file) has at least one card.
C9_OfferedDeckNonEmpty == ret.op = "run_deck" => ret.arg >= 1

\* the cards of cs that are mastered at the threshold, counted one by one
RECURSIVE mastered_count(_, _)
mastered_count(cs, time_threshold) ==
    IF Len(cs) = 0 THEN 0
    ELSE (IF is_mastered(Head(cs), time_threshold)[1] THEN 1 ELSE 0)
           + mastered_count(Tail(cs), time_threshold)

\* Claim C13: in every reachable state progress() is (completed, total) with
\* completed the number of mastered cards and total the number of cards, so
\* 0 <= completed <= total; and total does not change while a session lasts.
C13_ProgressCounts ==
    /\ [](LET p == progress(deck)
          IN  /\ p[1] = mastered_count(deck.cards, deck.time_threshold)
              /\ p[2] = Len(deck.cards)
              /\ 0 <= p[1]
              /\ p[1] <= p[2])
    /\ [][({screen, screen'} \subseteq {"run", "report"})
            => progress(deck')[2] = progress(deck)[2] ]_vars

\* a session half way: the handler has read progress() as (1, 2) and gone on
\* to the next card
C13_Witness ==
    /\ screen = "run"
    /\ ret.op = "on_answer_given"
    /\ ret.val = "next"
    /\ progress(deck) = <<1, 2>>

(***************************************************************************)
(* generate_division as a function of the pairs it is given.               *)
(***************************************************************************)
\* bound: pairs in the sequence given to the generator
MaxPairs == 2

\* the numbers in a pair
PairValues == 0 .. 2

RECURSIVE PairSeqs(_)
PairSeqs(n) ==
    IF n = 0 THEN {<<>>}
    ELSE PairSeqs(n - 1)
           \cup {Append(v, <<x, y>>) :
                   v \in {w \in PairSeqs(n - 1) : Len(w) = n - 1},
                   x \in PairValues, y \in PairValues}

InitGenerate ==
    /\ deck = Deck(<<>>, 0)
    /\ ret = Outcome("init", 0, Returned(0))
    /\ GuiIdle

\* deck = generate_division(vals, time_threshold=th)
GenerateDivision ==
    /\ \E vals \in PairSeqs(MaxPairs), th \in Thresholds :
          /\ deck' = generate_division(vals, th)
          /\ ret' = Outcome("generate_division", vals, Returned(th))
    /\ UNCHANGED gui_vars

NextGenerate == GenerateDivision

SpecGenerate == InitGenerate /\ [][NextGenerate]_vars

\* Claim C14: for every sequence of pairs (a, b), generate_division makes, in
\* the order of the input, exactly one card for each pair with a # 0 (prompt
\* from a*b and a, expected answer b, empty history) and none for a pair
\* with a = 0.
C14_DivisionSkipsZero ==
    ret.op = "generate_division" =>
        LET vals == ret.arg
            kept == {k \in 1 .. Len(vals) : vals[k][1] # 0}
            \* the place in vals of the pair that card j is made from
            pair_of(j) == CHOOSE k \in kept :
                             Cardinality({m \in kept : m <= k}) = j
        IN  /\ Len(deck.cards) = Cardinality(kept)
            /\ deck.time_threshold = ret.val
            /\ \A j \in 1 .. Len(deck.cards) :
                  LET a == vals[pair_of(j)][1]
                      b == vals[pair_of(j)][2]
                  IN  /\ deck.cards[j].problem
                           = str(a * b) \o <<" ", "/", " ">> \o str(a)
                               \o <<" ", "=", " ">>
                      /\ deck.cards[j].answer = b
                      /\ deck.cards[j].responses = <<>>

\* a pair with a = 0 in front of a pair with a # 0: one card, of the second
C14_Witness ==
    /\ ret.op = "generate_division"
    /\ Len(ret.arg) = 2
    /\ ret.arg[1][1] = 0
    /\ ret.arg[2][1] # 0
    /\ Len(deck.cards) = 1
    /\ deck.cards[1].answer = ret.arg[2][2]

(***************************************************************************)
(* Properties of loading a snapshot (specification SpecGui).               *)
(***************************************************************************)
\* Claim C15: when decoding a snapshot fails (a card entry lacks a required
\* field) the failure reaches the caller as an error, and the deck of the
\* program is left as it was: no card, history or threshold is modified or
\* replaced by a partial result.
C15_FailedLoadKeepsDeck ==
    /\ [](/\ from_yaml_dict(broken).exc = "KeyError"
          /\ \A file \in Files :
                file.doc = broken => load_deck(file).exc = "KeyError")
    /\ [][ret'.op = "load_deck" =>
            /\ ret'.exc # "none"
            /\ screen' # "crashed" =>
                  /\ deck' = deck
                  /\ current_card' = current_card
                  /\ screen' = screen]_vars

\* the load of the broken snapshot has failed over a deck with histories
C15_Witness ==
    /\ ret.op = "load_deck"
    /\ ret.exc = "KeyError"
    /\ screen = "home"
    /\ Len(deck.cards) = 2
    /\ \E i \in Cards : Len(deck.cards[i].responses) > 0

(***************************************************************************)
(* Properties of the histories (specification SpecGui).                    *)
(***************************************************************************)
\* a step keeps the cards of the deck and the history of each, but for one
\* record put at the end of at most one history: the record of an answer
\* that is an integer, with correct telling whether it is the expected one,
\* the text as log_response was given it and one of the elapsed times
AppendOnly ==
    /\ Len(deck'.cards) = Len(deck.cards)
    /\ \A i \in Cards :
          LET old == deck.cards[i].responses
              new == deck'.cards[i].responses
          IN  \/ new = old
              \/ /\ Len(new) = Len(old) + 1
                 /\ SubSeq(new, 1, Len(old)) = old
                 /\ LET r == new[Len(new)]
                        result == _check_answer(deck.cards[i], r.answer).val
                    IN  /\ result \in {"CORRECT", "INCORRECT"}
                        /\ r.correct = (result = "CORRECT")
                        /\ r.answer \in {strip(text) : text \in Typed}
                        /\ r.time \in Times
                 /\ \A j \in Cards \ {i} :
                       deck'.cards[j].responses = deck.cards[j].responses

\* every deck that on_custom_clicked starts a session on has the histories
\* that load_deck has decoded
LoadKeepsHistories ==
    \A file \in Files :
        LET l == load_deck(file)
        IN  l.exc = "none" =>
               \A o \in on_custom_clicked(file) :
                  o.screen = "run" =>
                     \A k \in 1 .. Len(l.val.cards) :
                        o.deck.cards[k].responses = l.val.cards[k].responses

\* Claim C17 as stated: the history of a card is append-only; log_response
\* with outcome CORRECT or INCORRECT adds exactly one record at the end and
\* leaves the others in place; no operation ever removes, reorders or mutates
\* a record of a card, the start of a session on a loaded deck included.
C17_AppendOnlyAlways ==
    /\ [][(ret'.op # "run_deck" /\ screen' # "crashed") => AppendOnly]_vars
    /\ [](screen = "home" => LoadKeepsHistories)

\* Claim C17, corrected: every handler other than the start of a session
\* (which puts a new deck in place) keeps every record and appends at most
\* one, the record of the CORRECT or INCORRECT answer just logged; the one
\* operation that removes records is on_custom_clicked, which empties the
\* histories of the deck it has loaded before the session starts.
C17_AppendOnlyInSession ==
    /\ [][(ret'.op # "run_deck" /\ screen' # "crashed") => AppendOnly]_vars
    /\ [](screen = "home" =>
            \A file \in Files :
               \A o \in on_custom_clicked(file) :
                  o.screen = "run" =>
                     \A k \in 1 .. Len(o.deck.cards) :
                        o.deck.cards[k].responses = <<>>)

\* an INCORRECT answer has been appended to a history that had a record
C17_Witness ==
    /\ screen = "run"
    /\ ret.op = "on_answer_given"
    /\ ret.val = "INCORRECT"
    /\ Len(deck.cards[current_card].responses) >= 2
    /\ ~ deck.cards[current_card].responses[
             Len(deck.cards[current_card].responses)].correct

\* Claim C18: when a persisted deck is loaded to start a session, the
\* history of every card is empty before the first card is selected, so
\* progress() is (0, total) at the start of the session whatever histories
\* the snapshot contained.
C18_LoadedDeckStartsEmpty ==
    /\ (ret.op = "run_deck" /\ ret.exc = "none" /\ ret.val = "loaded") =>
          /\ screen = "run"
          /\ \A i \in Cards : deck.cards[i].responses = <<>>
          /\ progress(deck) = <<0, Len(deck.cards)>>
    /\ screen = "home" =>
          \A file \in Files :
             \A o \in on_custom_clicked(file) :
                o.screen = "run" =>
                   progress(o.deck) = <<0, Len(load_deck(file).val.cards)>>

\* a session has started on the snapshot of played, in which a card was
\* mastered
C18_Witness ==
    /\ ret.op = "run_deck"
    /\ ret.exc = "none"
    /\ ret.val = "loaded"
    /\ screen = "run"
    /\ progress(played)[1] > 0
    /\ progress(deck) = <<0, Len(played.cards)>>

(***************************************************************************)
(* Progress of a session (specification SpecGui).                          *)
(***************************************************************************)
\* Claim C19: in a session, where a response is logged only against the card
\* get_card returned last and get_card is called only while completed <
\* total, the completed count of progress() never decreases from a state to
\* the next: a mastered card is not presented again and keeps its history,
\* hence its mastery, until the session is Complete.
C19_CompletedNeverDecreases ==
    /\ [](screen = "run" =>
            /\ current_card \in Cards
            /\ ~ Mastered(current_card))
    /\ [][({screen, screen'} \subseteq {"run", "report"}) =>
            /\ progress(deck')[1] >= progress(deck)[1]
            /\ \A i \in Cards :
                  Mastered(i) =>
                     /\ deck'.cards[i] = deck.cards[i]
                     /\ is_mastered(deck'.cards[i], deck'.time_threshold)[1]
                     /\ (screen' = "run" => current_card' # i)]_vars

\* a response has been logged in a session in which a card is mastered
C19_Witness ==
    /\ screen = "run"
    /\ ret.op = "on_answer_given"
    /\ ret.val = "INCORRECT"
    /\ progress(deck) = <<1, 2>>

(***************************************************************************)
(* The drill to mastery (specification SpecGui).                           *)
(***************************************************************************)
\* the quick CORRECT responses a card still needs: it is mastered once its
\* CORRECT records outnumber the others and the last one is CORRECT below
\* the threshold
needs(c, time_threshold) ==
    LET short == Len(c.responses) - 2 * num_correct(c) + 1
    IN  IF is_mastered(c, time_threshold)[1] THEN 0
        ELSE IF short > 1 THEN short
        ELSE 1

RECURSIVE sum_needs(_, _)
sum_needs(cs, time_threshold) ==
    IF Len(cs) = 0 THEN 0
    ELSE needs(Head(cs), time_threshold) + sum_needs(Tail(cs), time_threshold)

\* the quick CORRECT responses the session still needs
to_go(d) == sum_needs(d.cards, d.time_threshold)

\* the step logs, in the session on screen, a response that is CORRECT with
\* an elapsed time below the threshold
QuickCorrectLogged ==
    /\ screen = "run"
    /\ screen' \in {"run", "report"}
    /\ \E i \in Cards :
          LET was == deck.cards[i].responses
              now == deck'.cards[i].responses
          IN  /\ Len(now) = Len(was) + 1
              /\ now[Len(now)].correct
              /\ now[Len(now)].time < deck.time_threshold

\* the session in progress still takes a response: its answer field accepts
\* input, or the timer that enables the field again is pending
TakesResponses == answer_box = "enabled" \/ timer

\* the count to_go is 0 exactly when the session is Complete
CountIsProgress ==
    /\ screen = "run" => to_go(deck) > 0
    /\ screen = "report" => to_go(deck) = 0

\* every quick CORRECT response lowers the count by one
QuickCorrectLowersCount == QuickCorrectLogged => to_go(deck') = to_go(deck) - 1

\* Claim C20: from every reachable in-progress state of a session on a
\* non-empty deck, if every response logged from then on is CORRECT with an
\* elapsed time below the threshold, the session reaches Complete after
\* finitely many responses, whichever unmastered card get_card picks.  That
\* is: the count to_go is 0 exactly when the session is Complete, every
\* quick CORRECT response lowers it by one, and a session in progress never
\* stops taking responses.
C20_DrillCompletes ==
    /\ []CountIsProgress
    /\ [][QuickCorrectLowersCount]_vars
    /\ [](screen = "run" => TakesResponses)

(***************************************************************************)
(* What the operations of the backend leave alone (specification Spec).    *)
(***************************************************************************)
\* the problem text and the expected answer of a card
face(c) == <<c.problem, c.answer>>

\* Claim C22: log_response on one card changes nothing except that card's
\* history: the histories, problem texts and expected answers of all other
\* cards, the order of the cards in the deck and the time threshold stay as
\* they were (and so do the problem and the answer of the card itself).
C22_LogResponseFrame ==
    [][ret'.op = "log_response" =>
          /\ deck'.time_threshold = deck.time_threshold
          /\ Len(deck'.cards) = Len(deck.cards)
          /\ \A j \in Cards :
                /\ face(deck'.cards[j]) = face(deck.cards[j])
                /\ j # ret'.arg =>
                      deck'.cards[j].responses = deck.cards[j].responses]_vars

\* a response has been logged on one of two cards whose histories differ,
\* neither of them empty
C22_Witness ==
    /\ ret.op = "log_response"
    /\ ret.val \in {"CORRECT", "INCORRECT"}
    /\ Len(deck.cards) = 2
    /\ \A j \in Cards : Len(deck.cards[j].responses) > 0
    /\ deck.cards[1].responses # deck.cards[2].responses

\* the step is a call of one of the queries
Queried == ret'.op \in {"get_card", "progress", "worst_cards", "as_yaml_dict"}

\* Claim C23: get_card, progress, worst_cards and as_yaml_dict are
\* read-only: a call leaves every card's history, the order of the cards in
\* the deck and the time threshold unchanged (the worst-first sort is made
\* on a copy of the card list).
C23_QueriesReadOnly ==
    [][Queried =>
          /\ deck'.time_threshold = deck.time_threshold
          /\ Len(deck'.cards) = Len(deck.cards)
          /\ \A j \in Cards :
                /\ face(deck'.cards[j]) = face(deck.cards[j])
                /\ deck'.cards[j].responses = deck.cards[j].responses]_vars

\* worst_cards has listed the cards in another order than the deck holds
\* them
C23_Witness ==
    /\ ret.op = "worst_cards"
    /\ Len(deck.cards) = 2
    /\ ret.val.lines[1] = card_str(deck.cards[2])
    /\ ret.val.lines[1] # card_str(deck.cards[1])

(***************************************************************************)
(* The delay after an INCORRECT answer (specification SpecGui).            *)
(***************************************************************************)
\* the session on screen waits for the timer its handler has scheduled
InDelay == screen = "run" /\ timer

\* the step is the handler run by that timer
DelayTimerStep == InDelay /\ ret'.op = "timer"

\* the step passes inside the delay: the timer is pending before and after
WithinDelay == InDelay /\ screen' = "run" /\ timer'

\* the step appends to a history of the deck the session runs on
Appends ==
    /\ {screen, screen'} \subseteq {"run", "report"}
    /\ total_responses(deck'.cards) > total_responses(deck.cards)

\* Claim C21: between an INCORRECT result and the firing of the timer it
\* schedules no record is appended and the current card does not change;
\* the handler run by the timer logs nothing, clears the delay flag, enables
\* the answer field again and goes on to the next card or to the report;
\* and in every interleaving of submissions and timers each record appended
\* is the one submission of the user, logged against the current card.
C21_DelayIsQuiet ==
    /\ [][WithinDelay => deck' = deck /\ current_card' = current_card]_vars
    /\ [][DelayTimerStep =>
             /\ deck' = deck
             /\ ~ incorrect_delay'
             /\ ret'.val \in {"next", "report"}
             /\ (screen' = "run" => answer_box' = "enabled")
             /\ (screen' = "report" <=> progress(deck)[1] = progress(deck)[2])
         ]_vars
    /\ [][Appends =>
             /\ ret'.op = "on_answer_given"
             /\ total_responses(deck'.cards) = total_responses(deck.cards) + 1
             /\ \A i \in Cards :
                   IF i = current_card
                   THEN SubSeq(deck'.cards[i].responses, 1,
                               Len(deck.cards[i].responses))
                           = deck.cards[i].responses
                   ELSE deck'.cards[i] = deck.cards[i]]_vars

====
